---- MODULE Spec2Model ----
(***************************************************************************)
(* The quiz front end of YoutubeMCQGenerator: the MCQ quiz component       *)
(* (frontend/components/MCQQuiz.tsx), the flashcard component and the      *)
(* text parsers that feed them.  React state is one variable per useState  *)
(* cell; an event handler is one atomic action (React applies the setters  *)
(* of one handler in one render).                                          *)
(***************************************************************************)
EXTENDS Integers, Sequences, FiniteSets, TLC

\* ------------------------------------------------------------------ bounds
\* Longest generated text, in numbered blocks.
MaxBlocks == 3

\* Longest quiz whose result screen is computed.
MaxItems == 40

\* ------------------------------------------------------------- raw texts
\* The option letters of the grammar: /\(([ABCD])\)/.
Letters == {"A", "B", "C", "D"}

\* A raw MCQ text is modelled by the blocks that split+filter leave
\* (MCQQuiz.tsx:23).  A block records what the block regexes can see of it:
\*   q       whether /^\d+\.\s\*\*(.+?)\*\*/ matches,
\*   opts    the letters of the lines that /^\s*\(([ABCD])\)\s(.+)$/gm matches,
\*           in order of appearance,
\*   blank   the positions in opts of the lines whose captured text is
\*           white space only (it trims to ''),
\*   correct the letter of the "**Correct Answer: (X)**" marker, or "none".
GoodBlock(c) ==
  [q |-> TRUE, opts |-> <<"A", "B", "C", "D">>, blank |-> {}, correct |-> c]

ThreeOptionBlock ==
  [q |-> TRUE, opts |-> <<"A", "B", "C">>, blank |-> {}, correct |-> "A"]

\* The letter of the k-th block of a generated text (k = 1, 2, ...).
LetterOf(k) == CASE k % 4 = 0 -> "A" [] k % 4 = 1 -> "C" [] k % 4 = 2 -> "B" [] OTHER -> "D"

\* The text of n blocks, all well formed but block badAt (0: none), whose
\* correct letters start at rotation rot.
McqText(n, badAt, rot) ==
  [k \in 1..n |-> IF k = badAt THEN ThreeOptionBlock ELSE GoodBlock(LetterOf(k + rot))]

McqTexts == {McqText(n, b, r) : n \in 0..MaxBlocks, b \in 0..MaxBlocks, r \in 0..1}

\* Further block shapes, for the parser on its own.  Well formed, the options
\* in another order:
ShuffledBlock ==
  [q |-> TRUE, opts |-> <<"D", "C", "B", "A">>, blank |-> {}, correct |-> "B"]

\* No "**Correct Answer: (X)**" marker.
NoMarkerBlock ==
  [q |-> TRUE, opts |-> <<"A", "B", "C", "D">>, blank |-> {}, correct |-> "none"]

\* Four option lines, (A) twice and no (D); the marker names (D).
DuplicateLetterBlock ==
  [q |-> TRUE, opts |-> <<"A", "A", "B", "C">>, blank |-> {}, correct |-> "D"]

\* Five option lines.
FiveOptionBlock ==
  [q |-> TRUE, opts |-> <<"A", "B", "C", "D", "D">>, blank |-> {}, correct |-> "A"]

\* The header is numbered but /^\d+\.\s\*\*(.+?)\*\*/ has no match in it.
NoQuestionBlock ==
  [q |-> FALSE, opts |-> <<"A", "B", "C", "D">>, blank |-> {}, correct |-> "A"]

\* The (D) line carries white space only.
BlankOptionBlock ==
  [q |-> TRUE, opts |-> <<"A", "B", "C", "D">>, blank |-> {4}, correct |-> "A"]

McqBlocks ==
  {GoodBlock("A"), GoodBlock("C"), ShuffledBlock, ThreeOptionBlock, NoMarkerBlock,
   DuplicateLetterBlock, FiveOptionBlock, NoQuestionBlock, BlankOptionBlock}

\* Every text of up to MaxBlocks such blocks.
RichMcqTexts == UNION {[1..n -> McqBlocks] : n \in 0..MaxBlocks}

\* A raw flashcard text, by blocks (part_001:17):
\*   front   whether /^\d+\.\s\*\*(.+?)\*\*/ matches with a non-blank capture,
\*   answer  "none": no "**Answer:**" marker; "empty": marker followed by
\*           blank text only; "text": marker followed by text,
\*   category whether a "**Category: ...**" marker is present.
CardBlock(a) == [front |-> TRUE, answer |-> a, category |-> FALSE]

CardText(n, badAt, a) ==
  [k \in 1..n |-> IF k = badAt THEN CardBlock(a) ELSE CardBlock("text")]

CardTexts == {CardText(n, b, a) : n \in 0..MaxBlocks, b \in 0..MaxBlocks, a \in {"none", "empty"}}

\* Further card shapes, for the parser on its own.
NoFrontBlock == [front |-> FALSE, answer |-> "text", category |-> FALSE]

CategoryBlock == [front |-> TRUE, answer |-> "text", category |-> TRUE]

CardBlocks ==
  {CardBlock("text"), CardBlock("none"), CardBlock("empty"), NoFrontBlock, CategoryBlock}

RichCardTexts == UNION {[1..n -> CardBlocks] : n \in 0..MaxBlocks}

\* The text of the home page's input is modelled by its pieces, in order: the
\* regex of isValidYouTubeUrl (page.tsx:16) looks for an optional scheme, an
\* optional "www.", one of two hosts and at least one character of [\w-].
Schemes == {"http://", "https://"}

Hosts == {"youtube.com/watch?v=", "youtu.be/"}

VideoIds == {"dQw4w9WgXcQ", "a-b_1"}

Whitespace == {" "}

Urls ==
  { <<>>,
    <<" ">>,
    <<"https://", "www.", "youtube.com/watch?v=", "dQw4w9WgXcQ">>,
    <<"youtu.be/", "a-b_1", "?t=10">>,
    <<"https://", "vimeo.com/", "a-b_1">>,
    <<"https://", "youtube.com/watch?v=">>,
    <<" ", "https://", "youtube.com/watch?v=", "dQw4w9WgXcQ">>,
    <<"www.", "https://", "youtu.be/", "a-b_1">> }

\* What the two endpoints answer with: data.mcq_data, data.flashcard_data.
McqReplies == {McqText(2, 0, 0), McqText(2, 1, 1)}

CardReplies == {CardText(2, 0, "none"), CardText(2, 2, "empty")}

\* errorData.detail of a non-OK answer; '' stands for none (page.tsx:49).
Details == {"", "Transcript not available"}

\* A localStorage item: absent (getItem returns null), the empty string, or a
\* non-empty text.
NullItem == [kind |-> "null", blocks |-> <<>>]

EmptyItem == [kind |-> "empty", blocks |-> <<>>]

TextItem(t) == [kind |-> "text", blocks |-> t]

\* !storedMcqData (MCQQuiz.tsx:88): null and '' are falsy.
Falsy(item) == item.kind # "text"

\* The stores the parsers are run on: any text under either key.
RichStores ==
  {[mcqData |-> TextItem(t), flashcardData |-> NullItem] : t \in RichMcqTexts}
  \cup
  {[mcqData |-> NullItem, flashcardData |-> TextItem(t)] : t \in RichCardTexts}

\* The stores the sessions start from: one generated text under its key.
Stores ==
  {[mcqData |-> m, flashcardData |-> NullItem] :
      m \in {NullItem, EmptyItem} \cup {TextItem(t) : t \in McqTexts}}
  \cup
  {[mcqData |-> NullItem, flashcardData |-> f] :
      f \in {EmptyItem} \cup {TextItem(t) : t \in CardTexts}}

\* ---------------------------------------------------------------- parsers
\* options[letter] = text for every option line, later lines overwriting
\* earlier ones (MCQQuiz.tsx:33-42); TRUE stands for a non-empty text, FALSE
\* for '' (the initial value, or a blank text trimmed).
OptionsOf(block) ==
  [l \in Letters |->
     \E i \in 1..Len(block.opts) :
        /\ block.opts[i] = l
        /\ \A j \in (i + 1)..Len(block.opts) : block.opts[j] # l
        /\ i \notin block.blank]

\* A variant: the block is pushed whether or not the marker was found.
ParseMCQBlockAnyMarker(block, index) ==
  IF ~block.q THEN <<>>
  ELSE IF Len(block.opts) # 4 THEN <<>>
  ELSE <<[id |-> index + 1, options |-> OptionsOf(block), correctAnswer |-> block.correct]>>

\* One block of parseMCQOutput's forEach: the records it pushes (none or one).
ParseMCQBlock(block, index) ==
  IF ~block.q THEN <<>>
  ELSE IF Len(block.opts) # 4 THEN <<>>
  ELSE IF block.correct = "none" THEN <<>>
  ELSE <<[id |-> index + 1, options |-> OptionsOf(block), correctAnswer |-> block.correct]>>

\* A variant: the first block that is skipped ends the loop.
RECURSIVE ParseMCQFromAbort(_, _)
ParseMCQFromAbort(blocks, index) ==
  IF index >= Len(blocks) THEN <<>>
  ELSE IF ParseMCQBlock(blocks[index + 1], index) = <<>> THEN <<>>
  ELSE ParseMCQBlock(blocks[index + 1], index) \o ParseMCQFromAbort(blocks, index + 1)

RECURSIVE ParseMCQFrom(_, _)
ParseMCQFrom(blocks, index) ==
  IF index >= Len(blocks) THEN <<>>
  ELSE ParseMCQBlock(blocks[index + 1], index) \o ParseMCQFrom(blocks, index + 1)

\* A variant: the id is the record's place among the records pushed.
parseMCQOutputRenumbered(blocks) ==
  [k \in 1..Len(ParseMCQFrom(blocks, 0)) |->
     [ParseMCQFrom(blocks, 0)[k] EXCEPT !.id = k]]

parseMCQOutput(blocks) == ParseMCQFrom(blocks, 0)

\* One block of parseFlashcardOutput's forEach.
ParseCardBlock(block, index) ==
  IF ~block.front THEN <<>>
  ELSE IF block.answer = "none" THEN <<>>
  ELSE IF block.answer = "empty" THEN <<>>
  ELSE <<[id |-> index + 1, back |-> block.answer, category |-> block.category]>>

RECURSIVE ParseCardsFrom(_, _)
ParseCardsFrom(blocks, index) ==
  IF index >= Len(blocks) THEN <<>>
  ELSE ParseCardBlock(blocks[index + 1], index) \o ParseCardsFrom(blocks, index + 1)

parseFlashcardOutput(blocks) == ParseCardsFrom(blocks, 0)

\* ------------------------------------------------------------------ state
VARIABLES
  page,             \* the mounted route: "home", "quiz" or "flashcard"
  localStorage,     \* [mcqData, flashcardData]
  mcqData, currentQuestion, selectedAnswers, showExplanation, quizCompleted,
  loading, error,   \* MCQQuiz's useState cells
  flashcardData, currentCard, isFlipped, reviewedCards, studyCompleted,
  fcLoading, fcError,  \* FlashcardQuiz's useState cells
  lastOp,           \* history: the last handler run and its argument
  script,           \* history: how far a scripted scenario has come
  url,              \* HomePage: the text of the input, a sequence of pieces
  quizType,         \* HomePage: "mcq" or "flashcard"
  isProcessing,     \* HomePage: a submit is being processed
  homeError,        \* HomePage: its error cell, '' when there is none
  request           \* the call of handleSubmit suspended at an await, if any

quizVars == <<mcqData, currentQuestion, selectedAnswers, showExplanation,
              quizCompleted, loading, error>>

cardVars == <<flashcardData, currentCard, isFlipped, reviewedCards,
              studyCompleted, fcLoading, fcError>>

homeVars == <<url, quizType, isProcessing, homeError, request>>

vars == <<page, localStorage, quizVars, cardVars, lastOp, script, homeVars>>

\* A JavaScript object keyed by question index: a function on the keys set.
EmptyObject == [i \in {} |-> TRUE]

\* {...prev, [key]: value}
Spread(prev, key, value) ==
  [i \in DOMAIN prev \cup {key} |-> IF i = key THEN value ELSE prev[i]]

\* obj[key] used as a condition: undefined is falsy.
Has(obj, key) == key \in DOMAIN obj

Op(name, arg) == [op |-> name, arg |-> arg]

\* The useState initial values (MCQQuiz.tsx:75-81).
QuizInitial ==
  /\ mcqData = <<>>
  /\ currentQuestion = 0
  /\ selectedAnswers = EmptyObject
  /\ showExplanation = EmptyObject
  /\ quizCompleted = FALSE
  /\ loading = TRUE
  /\ error = ""

\* The useState initial values (part_001:66-72).
CardInitial ==
  /\ flashcardData = <<>>
  /\ currentCard = 0
  /\ isFlipped = FALSE
  /\ reviewedCards = {}
  /\ studyCompleted = FALSE
  /\ fcLoading = TRUE
  /\ fcError = ""

\* A mount, or an unmount: the cells take their useState initial values.
QuizFresh ==
  /\ mcqData' = <<>>
  /\ currentQuestion' = 0
  /\ selectedAnswers' = EmptyObject
  /\ showExplanation' = EmptyObject
  /\ quizCompleted' = FALSE
  /\ loading' = TRUE
  /\ error' = ""

CardFresh ==
  /\ flashcardData' = <<>>
  /\ currentCard' = 0
  /\ isFlipped' = FALSE
  /\ reviewedCards' = {}
  /\ studyCompleted' = FALSE
  /\ fcLoading' = TRUE
  /\ fcError' = ""

\* No call of handleSubmit is suspended.
Idle == [at |-> "idle", endpoint |-> "-", quizType |-> "-"]

HomeInitial ==
  /\ url = <<>>
  /\ quizType = "mcq"
  /\ isProcessing = FALSE
  /\ homeError = ""
  /\ request = Idle

HomeFresh ==
  /\ url' = <<>>
  /\ quizType' = "mcq"
  /\ isProcessing' = FALSE
  /\ homeError' = ""
  /\ request' = Idle

Init ==
  /\ page = "home"
  /\ localStorage \in Stores
  /\ QuizInitial
  /\ CardInitial
  /\ lastOp = Op("none", "-")
  /\ script = 0
  /\ HomeInitial

\* ------------------------------------------------------- MCQQuiz handlers
\* The handlers change the component's cells only; the actions below add the
\* route, the store and the history.

\* A variant: the effect stores whatever the parser returns, unchecked.
QuizLoadEffectUnchecked ==
  /\ IF Falsy(localStorage.mcqData)
       THEN /\ error' = "No quiz data found. Please generate a quiz first."
            /\ mcqData' = mcqData
       ELSE /\ mcqData' = parseMCQOutput(localStorage.mcqData.blocks)
            /\ error' = error
  /\ loading' = FALSE
  /\ UNCHANGED <<currentQuestion, selectedAnswers, showExplanation, quizCompleted>>

\* useEffect(() => {...}, []) (MCQQuiz.tsx:84-107).  parseMCQOutput catches
\* per block and split cannot throw on a string, so the catch at 101 is dead.
QuizLoadEffect ==
  /\ IF Falsy(localStorage.mcqData)
       THEN /\ error' = "No quiz data found. Please generate a quiz first."
            /\ mcqData' = mcqData
       ELSE LET parsedData == parseMCQOutput(localStorage.mcqData.blocks) IN
            IF Len(parsedData) = 0
              THEN /\ error' = "Could not parse quiz questions. Please try generating the quiz again."
                   /\ mcqData' = mcqData
              ELSE /\ mcqData' = parsedData
                   /\ error' = error
  /\ loading' = FALSE
  /\ UNCHANGED <<currentQuestion, selectedAnswers, showExplanation, quizCompleted>>

\* A variant: the answer is recorded without its explanation being shown.
handleAnswerSelectNoReveal(answer) ==
  /\ selectedAnswers' = Spread(selectedAnswers, currentQuestion, answer)
  /\ UNCHANGED <<mcqData, currentQuestion, showExplanation, quizCompleted, loading, error>>

handleAnswerSelect(answer) ==
  /\ selectedAnswers' = Spread(selectedAnswers, currentQuestion, answer)
  /\ showExplanation' = Spread(showExplanation, currentQuestion, TRUE)
  /\ UNCHANGED <<mcqData, currentQuestion, quizCompleted, loading, error>>

\* A variant: the onClick without its !showCurrentExplanation guard.
OptionOnClickUnguarded(letter) == handleAnswerSelect(letter)

\* The option button's onClick (MCQQuiz.tsx:279):
\*   () => !showCurrentExplanation && handleAnswerSelect(letter)
OptionOnClick(letter) ==
  IF ~Has(showExplanation, currentQuestion)
    THEN handleAnswerSelect(letter)
    ELSE UNCHANGED quizVars

\* A variant: the bound compared without its - 1.
nextQuestionOffByOne ==
  /\ IF currentQuestion < Len(mcqData)
       THEN /\ currentQuestion' = currentQuestion + 1
            /\ quizCompleted' = quizCompleted
       ELSE /\ quizCompleted' = TRUE
            /\ currentQuestion' = currentQuestion
  /\ UNCHANGED <<mcqData, selectedAnswers, showExplanation, loading, error>>

\* A variant: the quiz finishes one question early.
nextQuestionEarlyFinish ==
  /\ IF currentQuestion < Len(mcqData) - 2
       THEN /\ currentQuestion' = currentQuestion + 1
            /\ quizCompleted' = quizCompleted
       ELSE /\ quizCompleted' = TRUE
            /\ currentQuestion' = currentQuestion
  /\ UNCHANGED <<mcqData, selectedAnswers, showExplanation, loading, error>>

\* A variant: the last question's Next forgets setQuizCompleted(true).
nextQuestionNoFinish ==
  /\ IF currentQuestion < Len(mcqData) - 1
       THEN currentQuestion' = currentQuestion + 1
       ELSE currentQuestion' = currentQuestion
  /\ UNCHANGED <<mcqData, selectedAnswers, showExplanation, quizCompleted, loading, error>>

nextQuestion ==
  /\ IF currentQuestion < Len(mcqData) - 1
       THEN /\ currentQuestion' = currentQuestion + 1
            /\ quizCompleted' = quizCompleted
       ELSE /\ quizCompleted' = TRUE
            /\ currentQuestion' = currentQuestion
  /\ UNCHANGED <<mcqData, selectedAnswers, showExplanation, loading, error>>

\* A variant: the decrement without its currentQuestion > 0 test.
prevQuestionUnguarded ==
  /\ currentQuestion' = currentQuestion - 1
  /\ UNCHANGED <<mcqData, selectedAnswers, showExplanation, quizCompleted, loading, error>>

prevQuestion ==
  /\ IF currentQuestion > 0
       THEN currentQuestion' = currentQuestion - 1
       ELSE currentQuestion' = currentQuestion
  /\ UNCHANGED <<mcqData, selectedAnswers, showExplanation, quizCompleted, loading, error>>

\* A variant: the reset forgets setShowExplanation({}).
resetQuizKeepsExplanations ==
  /\ currentQuestion' = 0
  /\ selectedAnswers' = EmptyObject
  /\ quizCompleted' = FALSE
  /\ UNCHANGED <<mcqData, showExplanation, loading, error>>

resetQuiz ==
  /\ currentQuestion' = 0
  /\ selectedAnswers' = EmptyObject
  /\ showExplanation' = EmptyObject
  /\ quizCompleted' = FALSE
  /\ UNCHANGED <<mcqData, loading, error>>

\* What MCQQuiz renders (MCQQuiz.tsx:157-218): the loading screen, the error
\* screen, the completion screen, or the current question.
QuizShowsQuestion == page = "quiz" /\ ~loading /\ error = "" /\ ~quizCompleted

QuizShowsResult == page = "quiz" /\ ~loading /\ error = "" /\ quizCompleted

\* disabled={showCurrentExplanation} (MCQQuiz.tsx:281)
OptionDisabled == Has(showExplanation, currentQuestion)

\* A variant: the Next button without its disabled attribute.
NextNeverDisabled == FALSE

\* disabled={!selectedAnswer} (MCQQuiz.tsx:322)
NextDisabled == ~Has(selectedAnswers, currentQuestion)

\* disabled={currentQuestion === 0} (MCQQuiz.tsx:307)
PrevDisabled == currentQuestion = 0

\* The forEach of calculateScore from index idx on (MCQQuiz.tsx:149-153):
\* selectedAnswers[idx] is undefined, and so unequal to every letter, where
\* no answer is recorded.
RECURSIVE ScoreFrom(_, _, _)
ScoreFrom(data, answers, idx) ==
  IF idx >= Len(data) THEN 0
  ELSE (IF Has(answers, idx) /\ answers[idx] = data[idx + 1].correctAnswer THEN 1 ELSE 0)
       + ScoreFrom(data, answers, idx + 1)

\* A variant: every answered question counts, right or wrong.
calculateScoreAnswered == Cardinality(DOMAIN selectedAnswers)

\* calculateScore (MCQQuiz.tsx:147-155).
calculateScore == ScoreFrom(mcqData, selectedAnswers, 0)

\* --- the Number arithmetic of the percentage (MCQQuiz.tsx:188)
\* JavaScript Numbers are IEEE 754 binary64 values.  A positive one is kept as
\* [m, e]: m its Precision significand bits, most significant first (m[1] = 1),
\* e the exponent of m[1]; its value is m[1]*2^e + m[2]*2^(e-1) + ...
Precision == 53

RECURSIVE ValueOf(_)
ValueOf(bits) ==
  IF bits = <<>> THEN 0
  ELSE 2 * ValueOf(SubSeq(bits, 1, Len(bits) - 1)) + bits[Len(bits)]

RECURSIVE BinaryOf(_)
BinaryOf(k) == IF k = 0 THEN <<>> ELSE BinaryOf(k \div 2) \o <<k % 2>>

\* bits + 1: the last 0 becomes 1 and the 1s behind it 0; all 1s carry out.
Increment(bits) ==
  LET zeros == {k \in 1..Len(bits) : bits[k] = 0} IN
  IF zeros = {} THEN <<1>> \o [k \in 1..Len(bits) |-> 0]
  ELSE LET p == CHOOSE k \in zeros : \A j \in zeros : j <= k
       IN  [k \in 1..Len(bits) |-> IF k < p THEN bits[k] ELSE IF k = p THEN 1 ELSE 0]

\* Round to nearest, ties to even: bits are the leading Precision bits of the
\* exact result, above/tie tell where the discarded rest lies against half a
\* unit in the last place.
RoundEven(bits, above, tie, e) ==
  LET up == above \/ (tie /\ bits[Len(bits)] = 1)
      b  == IF up THEN Increment(bits) ELSE bits
  IN  IF Len(b) > Precision THEN [m |-> SubSeq(b, 1, Precision), e |-> e + 1]
      ELSE [m |-> b, e |-> e]

\* s * 2^k for the least k that brings it to n or above, with e = -k.
RECURSIVE Normalise(_, _, _)
Normalise(s, n, e) == IF s >= n THEN [r |-> s, e |-> e] ELSE Normalise(2 * s, n, e - 1)

\* b^e modulo n, by squaring.
RECURSIVE PowMod(_, _, _)
PowMod(b, e, n) ==
  IF e = 0 THEN 1 % n
  ELSE (PowMod(b, e \div 2, n) * PowMod(b, e \div 2, n) * (IF e % 2 = 1 THEN b ELSE 1)) % n

\* Long division of r / n, n <= r < 2n: the doubled remainder left after k
\* quotient bits, 2 * (r * 2^(k-1) mod n).
RemainderAfter(r, n, k) ==
  IF k = 0 THEN r ELSE 2 * ((r * PowMod(2, k - 1, n)) % n)

\* Its first k quotient bits.
QuotientBits(r, n, k) ==
  [i \in 1..k |-> IF RemainderAfter(r, n, i - 1) >= n THEN 1 ELSE 0]

\* score / mcqData.length for integers 0 < s <= n.
NumberDivide(s, n) ==
  LET nz  == Normalise(s, n, 0)
      rem == RemainderAfter(nz.r, n, Precision)
  IN  RoundEven(QuotientBits(nz.r, n, Precision), rem > n, rem = n, nz.e)

\* The exact product of a significand by a small integer c, in chunks of 8
\* bits from the least significant end: the value of chunk j = 1, 2, ...
ChunkOf(bits, j) == ValueOf(SubSeq(bits, Len(bits) - 8 * j + 1, Len(bits) - 8 * (j - 1)))

\* The carry out of the j lowest chunks.
RECURSIVE CarryAfter(_, _, _)
CarryAfter(bits, c, j) ==
  IF j = 0 THEN 0
  ELSE (ChunkOf(bits, j) * c + CarryAfter(bits, c, j - 1)) \div 256

TimesSmall(bits, c) ==
  LET full == Len(bits) \div 8
      top  == ValueOf(SubSeq(bits, 1, Len(bits) - 8 * full))
  IN  BinaryOf(top * c + CarryAfter(bits, c, full))
        \o [q \in 1..(8 * full) |->
              LET pos == 8 * full - q
                  j   == pos \div 8 + 1
              IN  ((ChunkOf(bits, j) * c + CarryAfter(bits, c, j - 1)) \div (2 ^ (pos % 8))) % 2]

\* x * c for a Number x and an integer c >= 1.
NumberTimes(x, c) ==
  LET p    == TimesSmall(x.m, c)
      w    == Len(p) - Precision
      rest == ValueOf(SubSeq(p, Precision + 1, Len(p)))
      half == IF w = 0 THEN 0 ELSE 2 ^ (w - 1)
  IN  RoundEven(SubSeq(p, 1, Precision), w > 0 /\ rest > half,
                w > 0 /\ rest = half, x.e + w)

\* Math.round of a positive Number below 2^Precision: the nearest integer, the
\* upper one when two are equally near.
MathRound(x) ==
  IF x.e < -1 THEN 0
  ELSE IF x.e = -1 THEN 1
  ELSE ValueOf(SubSeq(x.m, 1, x.e + 1)) + x.m[x.e + 2]

\* Math.round((score / mcqData.length) * 100) (MCQQuiz.tsx:188), for
\* 0 <= score <= total; 0 / 0 is NaN.
percentage(score, total) ==
  IF total = 0 THEN "NaN"
  ELSE IF score = 0 THEN 0
  ELSE MathRound(NumberTimes(NumberDivide(score, total), 100))

\* const score = calculateScore(); const percentage = ... (MCQQuiz.tsx:187-188)
ResultPercentage == percentage(calculateScore, Len(mcqData))

\* ------------------------------------------------- FlashcardQuiz handlers
\* A variant: the effect stores whatever the parser returns, unchecked.
CardLoadEffectUnchecked ==
  /\ IF Falsy(localStorage.flashcardData)
       THEN /\ fcError' = "No flashcard data found. Please generate flashcards first."
            /\ flashcardData' = flashcardData
       ELSE /\ flashcardData' = parseFlashcardOutput(localStorage.flashcardData.blocks)
            /\ fcError' = fcError
  /\ fcLoading' = FALSE
  /\ UNCHANGED <<currentCard, isFlipped, reviewedCards, studyCompleted>>

\* useEffect(() => {...}, []) (part_001:75-104).
CardLoadEffect ==
  /\ IF Falsy(localStorage.flashcardData)
       THEN /\ fcError' = "No flashcard data found. Please generate flashcards first."
            /\ flashcardData' = flashcardData
       ELSE LET parsedData == parseFlashcardOutput(localStorage.flashcardData.blocks) IN
            IF Len(parsedData) = 0
              THEN /\ fcError' = "Could not parse flashcard data. Please try generating the flashcards again."
                   /\ flashcardData' = flashcardData
              ELSE /\ flashcardData' = parsedData
                   /\ fcError' = fcError
  /\ fcLoading' = FALSE
  /\ UNCHANGED <<currentCard, isFlipped, reviewedCards, studyCompleted>>

\* A variant: flipping back to the front unmarks the card.
handleFlipToggle ==
  /\ isFlipped' = ~isFlipped
  /\ IF ~isFlipped
       THEN reviewedCards' = reviewedCards \cup {currentCard}
       ELSE reviewedCards' = reviewedCards \ {currentCard}
  /\ UNCHANGED <<flashcardData, currentCard, studyCompleted, fcLoading, fcError>>

handleFlip ==
  /\ isFlipped' = ~isFlipped
  /\ IF ~isFlipped
       THEN reviewedCards' = reviewedCards \cup {currentCard}
       ELSE reviewedCards' = reviewedCards
  /\ UNCHANGED <<flashcardData, currentCard, studyCompleted, fcLoading, fcError>>

\* A variant: the bound compared without its - 1.
nextCardOffByOne ==
  /\ IF currentCard < Len(flashcardData)
       THEN /\ currentCard' = currentCard + 1
            /\ isFlipped' = FALSE
            /\ studyCompleted' = studyCompleted
       ELSE /\ studyCompleted' = TRUE
            /\ currentCard' = currentCard
            /\ isFlipped' = isFlipped
  /\ UNCHANGED <<flashcardData, reviewedCards, fcLoading, fcError>>

\* A variant: the next card comes up on the side the last one showed.
nextCardKeepsSide ==
  /\ IF currentCard < Len(flashcardData) - 1
       THEN /\ currentCard' = currentCard + 1
            /\ studyCompleted' = studyCompleted
       ELSE /\ studyCompleted' = TRUE
            /\ currentCard' = currentCard
  /\ UNCHANGED <<flashcardData, isFlipped, reviewedCards, fcLoading, fcError>>

nextCard ==
  /\ IF currentCard < Len(flashcardData) - 1
       THEN /\ currentCard' = currentCard + 1
            /\ isFlipped' = FALSE
            /\ studyCompleted' = studyCompleted
       ELSE /\ studyCompleted' = TRUE
            /\ currentCard' = currentCard
            /\ isFlipped' = isFlipped
  /\ UNCHANGED <<flashcardData, reviewedCards, fcLoading, fcError>>

\* A variant: going back a card leaves the completion screen.
prevCardReopens ==
  /\ IF currentCard > 0
       THEN /\ currentCard' = currentCard - 1
            /\ isFlipped' = FALSE
       ELSE /\ currentCard' = currentCard
            /\ isFlipped' = isFlipped
  /\ studyCompleted' = FALSE
  /\ UNCHANGED <<flashcardData, reviewedCards, fcLoading, fcError>>

prevCard ==
  /\ IF currentCard > 0
       THEN /\ currentCard' = currentCard - 1
            /\ isFlipped' = FALSE
       ELSE /\ currentCard' = currentCard
            /\ isFlipped' = isFlipped
  /\ UNCHANGED <<flashcardData, reviewedCards, studyCompleted, fcLoading, fcError>>

\* A variant: studying again drops the deck with the progress.
resetStudyDropsCards ==
  /\ flashcardData' = <<>>
  /\ currentCard' = 0
  /\ isFlipped' = FALSE
  /\ reviewedCards' = {}
  /\ studyCompleted' = FALSE
  /\ UNCHANGED <<fcLoading, fcError>>

resetStudy ==
  /\ currentCard' = 0
  /\ isFlipped' = FALSE
  /\ reviewedCards' = {}
  /\ studyCompleted' = FALSE
  /\ UNCHANGED <<flashcardData, fcLoading, fcError>>

\* What FlashcardQuiz renders (part_001:142-201).
CardShowsCard == page = "flashcard" /\ ~fcLoading /\ fcError = "" /\ ~studyCompleted

CardShowsResult == page = "flashcard" /\ ~fcLoading /\ fcError = "" /\ studyCompleted

\* disabled={currentCard === 0} (part_001:299)
PrevCardDisabled == currentCard = 0

\* const reviewedCount = reviewedCards.size; const percentage = ...
\* (part_001:170-171)
ReviewedPercentage == percentage(Cardinality(reviewedCards), Len(flashcardData))

\* ---------------------------------------------------------------- actions
\* The program as the user drives it: an action is an event on a control that
\* is rendered and not disabled.

\* router.push('/quiz'): MCQQuiz mounts with its initial state.
OpenQuiz ==
  /\ page = "home"
  /\ page' = "quiz"
  /\ QuizFresh
  /\ lastOp' = Op("mount", "-")
  /\ UNCHANGED <<localStorage, cardVars, script>>
  /\ HomeFresh

QuizLoad ==
  /\ page = "quiz" /\ loading
  /\ QuizLoadEffect
  /\ lastOp' = Op("load", "-")
  /\ UNCHANGED <<page, localStorage, cardVars, script>>
  /\ UNCHANGED homeVars

ClickOption(letter) ==
  /\ QuizShowsQuestion /\ ~OptionDisabled
  /\ OptionOnClick(letter)
  /\ lastOp' = Op("selectAnswer", letter)
  /\ UNCHANGED <<page, localStorage, cardVars, script>>
  /\ UNCHANGED homeVars

ClickNext ==
  /\ QuizShowsQuestion /\ ~NextDisabled
  /\ nextQuestion
  /\ lastOp' = Op("advance", "-")
  /\ UNCHANGED <<page, localStorage, cardVars, script>>
  /\ UNCHANGED homeVars

ClickPrevious ==
  /\ QuizShowsQuestion /\ ~PrevDisabled
  /\ prevQuestion
  /\ lastOp' = Op("retreat", "-")
  /\ UNCHANGED <<page, localStorage, cardVars, script>>
  /\ UNCHANGED homeVars

ClickRetake ==
  /\ QuizShowsResult
  /\ resetQuiz
  /\ lastOp' = Op("reset", "-")
  /\ UNCHANGED <<page, localStorage, cardVars, script>>
  /\ UNCHANGED homeVars

\* goHome (MCQQuiz.tsx:141-145), on every screen but the loading one; the
\* component unmounts and its state is dropped.
QuizGoHome ==
  /\ page = "quiz" /\ ~loading
  /\ page' = "home"
  /\ QuizFresh
  /\ lastOp' = Op("home", "-")
  /\ UNCHANGED <<localStorage, cardVars, script>>
  /\ UNCHANGED homeVars

\* router.push('/flashcard'): FlashcardQuiz mounts with its initial state.
OpenFlashcards ==
  /\ page = "home"
  /\ page' = "flashcard"
  /\ CardFresh
  /\ lastOp' = Op("mount", "-")
  /\ UNCHANGED <<localStorage, quizVars, script>>
  /\ HomeFresh

CardLoad ==
  /\ page = "flashcard" /\ fcLoading
  /\ CardLoadEffect
  /\ lastOp' = Op("load", "-")
  /\ UNCHANGED <<page, localStorage, quizVars, script>>
  /\ UNCHANGED homeVars

ClickFlip ==
  /\ CardShowsCard
  /\ handleFlip
  /\ lastOp' = Op("flipCard", "-")
  /\ UNCHANGED <<page, localStorage, quizVars, script>>
  /\ UNCHANGED homeVars

ClickNextCard ==
  /\ CardShowsCard
  /\ nextCard
  /\ lastOp' = Op("advance", "-")
  /\ UNCHANGED <<page, localStorage, quizVars, script>>
  /\ UNCHANGED homeVars

ClickPreviousCard ==
  /\ CardShowsCard /\ ~PrevCardDisabled
  /\ prevCard
  /\ lastOp' = Op("retreat", "-")
  /\ UNCHANGED <<page, localStorage, quizVars, script>>
  /\ UNCHANGED homeVars

ClickStudyAgain ==
  /\ CardShowsResult
  /\ resetStudy
  /\ lastOp' = Op("reset", "-")
  /\ UNCHANGED <<page, localStorage, quizVars, script>>
  /\ UNCHANGED homeVars

CardGoHome ==
  /\ page = "flashcard" /\ ~fcLoading
  /\ page' = "home"
  /\ CardFresh
  /\ lastOp' = Op("home", "-")
  /\ UNCHANGED <<localStorage, quizVars, script>>
  /\ UNCHANGED homeVars

Next ==
  \/ OpenQuiz
  \/ QuizLoad
  \/ \E letter \in Letters : ClickOption(letter)
  \/ ClickNext
  \/ ClickPrevious
  \/ ClickRetake
  \/ QuizGoHome
  \/ OpenFlashcards
  \/ CardLoad
  \/ ClickFlip
  \/ ClickNextCard
  \/ ClickPreviousCard
  \/ ClickStudyAgain
  \/ CardGoHome

Spec == Init /\ [][Next]_vars

\* ------------------------------------------------------ the handlers, called
\* The session operations of a mounted component called directly, whatever
\* the component renders: selectAnswer is the option button's onClick, the
\* others are the handlers the buttons are wired to.
CallSelectAnswer(letter) ==
  /\ page = "quiz"
  /\ OptionOnClick(letter)
  /\ lastOp' = Op("selectAnswer", letter)
  /\ UNCHANGED <<page, localStorage, cardVars, script>>
  /\ UNCHANGED homeVars

CallAdvance ==
  /\ page = "quiz"
  /\ nextQuestion
  /\ lastOp' = Op("advance", "-")
  /\ UNCHANGED <<page, localStorage, cardVars, script>>
  /\ UNCHANGED homeVars

CallRetreat ==
  /\ page = "quiz"
  /\ prevQuestion
  /\ lastOp' = Op("retreat", "-")
  /\ UNCHANGED <<page, localStorage, cardVars, script>>
  /\ UNCHANGED homeVars

CallReset ==
  /\ page = "quiz"
  /\ resetQuiz
  /\ lastOp' = Op("reset", "-")
  /\ UNCHANGED <<page, localStorage, cardVars, script>>
  /\ UNCHANGED homeVars

CallFlipCard ==
  /\ page = "flashcard"
  /\ handleFlip
  /\ lastOp' = Op("flipCard", "-")
  /\ UNCHANGED <<page, localStorage, quizVars, script>>
  /\ UNCHANGED homeVars

CallAdvanceCard ==
  /\ page = "flashcard"
  /\ nextCard
  /\ lastOp' = Op("advance", "-")
  /\ UNCHANGED <<page, localStorage, quizVars, script>>
  /\ UNCHANGED homeVars

CallRetreatCard ==
  /\ page = "flashcard"
  /\ prevCard
  /\ lastOp' = Op("retreat", "-")
  /\ UNCHANGED <<page, localStorage, quizVars, script>>
  /\ UNCHANGED homeVars

CallResetCard ==
  /\ page = "flashcard"
  /\ resetStudy
  /\ lastOp' = Op("reset", "-")
  /\ UNCHANGED <<page, localStorage, quizVars, script>>
  /\ UNCHANGED homeVars

NextHandlers ==
  \/ OpenQuiz
  \/ QuizLoad
  \/ \E letter \in Letters : CallSelectAnswer(letter)
  \/ CallAdvance
  \/ CallRetreat
  \/ CallReset
  \/ QuizGoHome
  \/ OpenFlashcards
  \/ CardLoad
  \/ CallFlipCard
  \/ CallAdvanceCard
  \/ CallRetreatCard
  \/ CallResetCard
  \/ CardGoHome

SpecHandlers == Init /\ [][NextHandlers]_vars

\* ------------------------------------------------------ a scripted session
\* The calls of the scenario "load, answer the first question, advance twice,
\* retreat twice", made in that order on the handlers, with or without
\* further answers in between; script counts the calls made.
ScriptOpen ==
  /\ script = 0 /\ page = "home"
  /\ page' = "quiz"
  /\ QuizFresh
  /\ lastOp' = Op("mount", "-")
  /\ script' = 1
  /\ UNCHANGED <<localStorage, cardVars>>
  /\ HomeFresh

ScriptLoad ==
  /\ script = 1 /\ page = "quiz" /\ loading
  /\ QuizLoadEffect
  /\ lastOp' = Op("load", "-")
  /\ script' = 2
  /\ UNCHANGED <<page, localStorage, cardVars>>
  /\ UNCHANGED homeVars

ScriptSelectAnswer(letter) ==
  /\ script = 2 /\ QuizShowsQuestion
  /\ OptionOnClick(letter)
  /\ lastOp' = Op("selectAnswer", letter)
  /\ script' = 3
  /\ UNCHANGED <<page, localStorage, cardVars>>
  /\ UNCHANGED homeVars

\* Answers recorded in between (the Next button asks for one before each
\* advance); they are not calls of the script.
ScriptOtherAnswer(letter) ==
  /\ script \in 3..6 /\ QuizShowsQuestion
  /\ OptionOnClick(letter)
  /\ lastOp' = Op("selectAnswer", letter)
  /\ UNCHANGED <<page, localStorage, cardVars, script>>
  /\ UNCHANGED homeVars

ScriptAdvance ==
  /\ script \in {3, 4}
  /\ nextQuestion
  /\ lastOp' = Op("advance", "-")
  /\ script' = script + 1
  /\ UNCHANGED <<page, localStorage, cardVars>>
  /\ UNCHANGED homeVars

ScriptRetreat ==
  /\ script \in {5, 6}
  /\ prevQuestion
  /\ lastOp' = Op("retreat", "-")
  /\ script' = script + 1
  /\ UNCHANGED <<page, localStorage, cardVars>>
  /\ UNCHANGED homeVars

NextScript ==
  \/ ScriptOpen
  \/ ScriptLoad
  \/ \E letter \in Letters : ScriptSelectAnswer(letter)
  \/ \E letter \in Letters : ScriptOtherAnswer(letter)
  \/ ScriptAdvance
  \/ ScriptRetreat

SpecScript == Init /\ [][NextScript]_vars

\* ---------------------------------------------------------- the home page
RECURSIVE TrimStart(_)
TrimStart(u) ==
  IF u # <<>> /\ Head(u) \in Whitespace THEN TrimStart(Tail(u)) ELSE u

RECURSIVE TrimEnd(_)
TrimEnd(u) ==
  IF u # <<>> /\ u[Len(u)] \in Whitespace
    THEN TrimEnd(SubSeq(u, 1, Len(u) - 1))
    ELSE u

\* String.prototype.trim
trim(u) == TrimEnd(TrimStart(u))

\* The regex is anchored at the start of the text only.
isValidYouTubeUrl(u) ==
  LET afterScheme == IF u # <<>> /\ Head(u) \in Schemes THEN Tail(u) ELSE u
      afterWww == IF afterScheme # <<>> /\ Head(afterScheme) = "www."
                    THEN Tail(afterScheme)
                    ELSE afterScheme
  IN  /\ Len(afterWww) >= 2
      /\ afterWww[1] \in Hosts
      /\ afterWww[2] \in VideoIds

\* handleSubmit up to its first await (page.tsx:20-45).
handleSubmit ==
  IF trim(url) = <<>>
    THEN /\ homeError' = "Please enter a YouTube URL"
         /\ UNCHANGED <<url, quizType, isProcessing, request>>
    ELSE IF ~isValidYouTubeUrl(url)
      THEN /\ homeError' = "Please enter a valid YouTube URL"
           /\ UNCHANGED <<url, quizType, isProcessing, request>>
      ELSE /\ homeError' = ""
           /\ isProcessing' = TRUE
           /\ request' = [at |-> "fetch",
                          endpoint |-> IF quizType = "mcq"
                                         THEN "/process-video"
                                         ELSE "/process-video-flashcards",
                          quizType |-> quizType]
           /\ UNCHANGED <<url, quizType>>

\* A variant: the catch block without the finally block after it.
handleSubmitCatchNoFinally(message) ==
  /\ homeError' = message
  /\ request' = Idle
  /\ UNCHANGED <<url, quizType, isProcessing>>

\* catch and finally (page.tsx:66-71).
handleSubmitCatch(message) ==
  /\ homeError' = message
  /\ isProcessing' = FALSE
  /\ request' = Idle
  /\ UNCHANGED <<url, quizType>>

\* The input's onChange; the input is disabled while processing.
HomeType ==
  /\ page = "home" /\ ~isProcessing
  /\ \E u \in Urls : url' = u
  /\ lastOp' = Op("setUrl", "-")
  /\ UNCHANGED <<page, localStorage, quizVars, cardVars, script>>
  /\ UNCHANGED <<quizType, isProcessing, homeError, request>>

\* The two quiz type buttons, disabled while processing.
HomeChoose ==
  /\ page = "home" /\ ~isProcessing
  /\ \E type \in {"mcq", "flashcard"} :
       /\ quizType' = type
       /\ lastOp' = Op("setQuizType", type)
  /\ UNCHANGED <<page, localStorage, quizVars, cardVars, script>>
  /\ UNCHANGED <<url, isProcessing, homeError, request>>

\* The submit button, or Enter in the input; both disabled while processing.
HomeSubmit ==
  /\ page = "home" /\ ~isProcessing
  /\ handleSubmit
  /\ lastOp' = Op("submit", "-")
  /\ UNCHANGED <<page, localStorage, quizVars, cardVars, script>>

\* await fetch(...) resolves, with an OK or a non-OK response.
FetchResolves ==
  /\ request.at = "fetch"
  /\ \E ok \in BOOLEAN :
       request' = [request EXCEPT !.at = IF ok THEN "json" ELSE "errorJson"]
  /\ lastOp' = Op("response", "-")
  /\ UNCHANGED <<page, localStorage, quizVars, cardVars, script>>
  /\ UNCHANGED <<url, quizType, isProcessing, homeError>>

\* await fetch(...) rejects: the server cannot be reached.
FetchRejects ==
  /\ request.at = "fetch"
  /\ handleSubmitCatch("Failed to fetch")
  /\ lastOp' = Op("failed", "-")
  /\ UNCHANGED <<page, localStorage, quizVars, cardVars, script>>

\* The body of a non-OK response: the throw of page.tsx:49, or the rejection
\* of response.json() itself.
ErrorBodySettles ==
  /\ request.at = "errorJson"
  /\ \/ \E detail \in Details :
          handleSubmitCatch(IF detail # ""
                              THEN detail
                              ELSE IF request.quizType = "mcq"
                                THEN "Failed to process video for mcq"
                                ELSE "Failed to process video for flashcard")
     \/ handleSubmitCatch("Unexpected end of JSON input")
  /\ lastOp' = Op("failed", "-")
  /\ UNCHANGED <<page, localStorage, quizVars, cardVars, script>>

\* The body of an OK response does not parse.
BodyRejects ==
  /\ request.at = "json"
  /\ handleSubmitCatch("Unexpected end of JSON input")
  /\ lastOp' = Op("failed", "-")
  /\ UNCHANGED <<page, localStorage, quizVars, cardVars, script>>

\* The body of an OK response arrives: the text is stored, the route is
\* pushed, finally runs; HomePage unmounts and the quiz component mounts.
\* The videoId item is read by neither quiz component and is left out.
BodyArrives ==
  /\ request.at = "json"
  /\ IF request.quizType = "mcq"
       THEN /\ \E text \in McqReplies :
                 localStorage' = [localStorage EXCEPT !.mcqData = TextItem(text)]
            /\ page' = "quiz"
            /\ QuizFresh
            /\ UNCHANGED cardVars
       ELSE /\ \E text \in CardReplies :
                 localStorage' = [localStorage EXCEPT !.flashcardData = TextItem(text)]
            /\ page' = "flashcard"
            /\ CardFresh
            /\ UNCHANGED quizVars
  /\ HomeFresh
  /\ lastOp' = Op("mount", "-")
  /\ UNCHANGED script

\* A browser that has not stored anything yet.
InitHome ==
  /\ Init
  /\ localStorage = [mcqData |-> NullItem, flashcardData |-> NullItem]

NextHome ==
  \/ HomeType
  \/ HomeChoose
  \/ HomeSubmit
  \/ FetchResolves
  \/ FetchRejects
  \/ ErrorBodySettles
  \/ BodyRejects
  \/ BodyArrives
  \/ QuizLoad
  \/ QuizGoHome
  \/ CardLoad
  \/ CardGoHome

\* Each promise that handleSubmit awaits settles, and its continuation runs.
SpecHome ==
  /\ InitHome
  /\ [][NextHome]_vars
  /\ WF_vars(FetchResolves \/ FetchRejects)
  /\ WF_vars(ErrorBodySettles)
  /\ WF_vars(BodyRejects \/ BodyArrives)

\* ------------------------------------------------- answering to the end
\* The quiz used freely through its controls (script = 0) up to a point from
\* which the user only selects answers and presses Next (script = 1).
LiveBrowse ==
  /\ script = 0
  /\ \/ OpenQuiz
     \/ QuizLoad
     \/ \E letter \in Letters : ClickOption(letter)
     \/ ClickNext
     \/ ClickPrevious
     \/ ClickRetake
     \/ QuizGoHome

\* The point itself, on any question of a loaded quiz.
LiveSettle ==
  /\ script = 0
  /\ QuizShowsQuestion
  /\ script' = 1
  /\ UNCHANGED <<page, localStorage, quizVars, cardVars, lastOp>>
  /\ UNCHANGED homeVars

LiveSelect == script = 1 /\ \E letter \in Letters : ClickOption(letter)

LiveNext == script = 1 /\ ClickNext

NextLive ==
  \/ LiveBrowse
  \/ LiveSettle
  \/ LiveSelect
  \/ LiveNext

\* A user who keeps answering and keeps pressing Next: an option button, and
\* the Next button, that stays enabled is pressed in the end.
SpecLive ==
  /\ Init
  /\ [][NextLive]_vars
  /\ WF_vars(LiveSelect)
  /\ WF_vars(LiveNext)

\* ------------------------------------------------------ the parsers alone
\* The load effects run on every text of RichStores.
InitParse ==
  /\ page = "home"
  /\ localStorage \in RichStores
  /\ QuizInitial
  /\ CardInitial
  /\ lastOp = Op("none", "-")
  /\ script = 0
  /\ HomeInitial

NextParse ==
  \/ OpenQuiz
  \/ QuizLoad
  \/ QuizGoHome
  \/ OpenFlashcards
  \/ CardLoad
  \/ CardGoHome

SpecParse == InitParse /\ [][NextParse]_vars

\* What the load effects get from the parsers (MCQQuiz.tsx:95, part_001:88).
ParsedQuestions == parseMCQOutput(localStorage.mcqData.blocks)

ParsedCards == parseFlashcardOutput(localStorage.flashcardData.blocks)

\* ------------------------------------------------- the result screen alone
\* The quizzes of 1..MaxItems questions on their last question with every
\* question answered, the first `right` of them correctly: what MaxItems
\* selections and MaxItems - 1 advances lead to.
InitResult ==
  \E n \in 1..MaxItems, right \in 0..MaxItems :
    /\ right <= n
    /\ page = "quiz"
    /\ localStorage = [mcqData |-> TextItem([k \in 1..n |-> GoodBlock("A")]),
                       flashcardData |-> NullItem]
    /\ mcqData = parseMCQOutput([k \in 1..n |-> GoodBlock("A")])
    /\ currentQuestion = n - 1
    /\ selectedAnswers = [i \in 0..(n - 1) |-> IF i < right THEN "A" ELSE "B"]
    /\ showExplanation = [i \in 0..(n - 1) |-> TRUE]
    /\ quizCompleted = FALSE
    /\ loading = FALSE
    /\ error = ""
    /\ CardInitial
    /\ lastOp = Op("selectAnswer", IF right = n THEN "A" ELSE "B")
    /\ script = 0
    /\ HomeInitial

NextResult ==
  \/ ClickNext
  \/ ClickRetake
  \/ QuizGoHome

SpecResult == InitResult /\ [][NextResult]_vars

\* ================================================================= claims
\* A step that empties the session on purpose: reset, or leaving the page.
Clears == lastOp'.op \in {"reset", "home"}

QuizStep(name) == page = "quiz" /\ page' = "quiz" /\ lastOp'.op = name

CardStep(name) == page = "flashcard" /\ page' = "flashcard" /\ lastOp'.op = name

\* C1: once an answer is recorded for an index, no later call (a selectAnswer
\* for that index with the same or another letter included) changes or removes
\* it, until a reset or the component's unmount.
C1_FirstSelectionWins ==
  [][~Clears =>
       \A i \in DOMAIN selectedAnswers :
          /\ i \in DOMAIN selectedAnswers'
          /\ selectedAnswers'[i] = selectedAnswers[i]]_vars

\* A second selectAnswer, with another letter, was the last call, and the
\* recorded answer is still the first one.
C1_Witness ==
  /\ QuizShowsQuestion
  /\ lastOp.op = "selectAnswer"
  /\ Has(selectedAnswers, currentQuestion)
  /\ selectedAnswers[currentQuestion] # lastOp.arg

\* C2: in a loaded session, advance on the last index sets the completion
\* flag and keeps the index; on any other index it adds exactly 1 to the
\* index and keeps the completion flag; for the quiz and for the flashcards.
C2_AdvanceEffect ==
  [][/\ (QuizStep("advance") /\ Len(mcqData) > 0) =>
          IF currentQuestion = Len(mcqData) - 1
            THEN quizCompleted' /\ currentQuestion' = currentQuestion
            ELSE currentQuestion' = currentQuestion + 1 /\ quizCompleted' = quizCompleted
     /\ (CardStep("advance") /\ Len(flashcardData) > 0) =>
          IF currentCard = Len(flashcardData) - 1
            THEN studyCompleted' /\ currentCard' = currentCard
            ELSE currentCard' = currentCard + 1 /\ studyCompleted' = studyCompleted]_vars

\* The last call was the advance that completed a quiz of several questions.
C2_Witness ==
  /\ page = "quiz"
  /\ lastOp.op = "advance"
  /\ Len(mcqData) > 1
  /\ currentQuestion = Len(mcqData) - 1
  /\ quizCompleted

\* C3: while the current question has no recorded answer no step of the quiz
\* advances (the index does not grow and the completion flag is not set);
\* while a flashcard is shown, reviewed or not, Next is enabled.
C3_AdvanceGate ==
  /\ [][(page = "quiz" /\ ~Has(selectedAnswers, currentQuestion)) =>
           /\ currentQuestion' <= currentQuestion
           /\ quizCompleted' = quizCompleted]_vars
  /\ [](CardShowsCard => ENABLED ClickNextCard)

\* The quiz advanced to a later question, which is still unanswered, so Next is
\* disabled there.
C3_Witness ==
  /\ QuizShowsQuestion
  /\ lastOp.op = "advance"
  /\ currentQuestion > 0
  /\ NextDisabled

\* C4: retreat takes 1 from an index above 0 and keeps index 0; retreat and
\* advance both leave every recorded answer, reveal flag and reviewed flag as
\* it was.
C4_RetreatFrame ==
  [][/\ QuizStep("retreat") =>
          /\ currentQuestion' = IF currentQuestion > 0 THEN currentQuestion - 1 ELSE 0
          /\ selectedAnswers' = selectedAnswers
          /\ showExplanation' = showExplanation
     /\ CardStep("retreat") =>
          /\ currentCard' = IF currentCard > 0 THEN currentCard - 1 ELSE 0
          /\ reviewedCards' = reviewedCards
     /\ QuizStep("advance") =>
          /\ selectedAnswers' = selectedAnswers
          /\ showExplanation' = showExplanation
     /\ CardStep("advance") => reviewedCards' = reviewedCards]_vars

\* The last call was a retreat, the quiz stands on the first question and
\* answers are recorded for the first two questions.
C4_Witness ==
  /\ page = "quiz"
  /\ lastOp.op = "retreat"
  /\ currentQuestion = 0
  /\ {0, 1} \subseteq DOMAIN selectedAnswers
  /\ {0, 1} \subseteq DOMAIN showExplanation

\* C5, as stated: in the scripted session on three questions the quiz is
\* completed after the two advance calls, and after the two retreat calls
\* the index is 0 with the first answer and its reveal flag still there.
C5_CompletedAfterTwoAdvances ==
  Len(mcqData) = 3 =>
    /\ script = 5 => quizCompleted
    /\ script = 7 =>
         /\ currentQuestion = 0
         /\ Has(selectedAnswers, 0)
         /\ Has(showExplanation, 0)

\* C5, amended: in the scripted session on three questions the two advance
\* calls reach index 2, the last one, and the quiz is not completed yet; after
\* the two retreat calls the index is 0 with the first answer and its reveal
\* flag still there.
C5_ScriptedSession ==
  Len(mcqData) = 3 =>
    /\ script = 5 => (currentQuestion = 2 /\ ~quizCompleted)
    /\ script = 7 =>
         /\ currentQuestion = 0
         /\ ~quizCompleted
         /\ Has(selectedAnswers, 0)
         /\ Has(showExplanation, 0)

\* The script has run to its end on three questions.
C5_Witness ==
  /\ Len(mcqData) = 3
  /\ script = 7
  /\ lastOp.op = "retreat"
  /\ currentQuestion = 0
  /\ Has(selectedAnswers, 0)

\* C6: reset, from any state of a mounted component, gives index 0, no
\* recorded answer, no reveal or reviewed flag and a cleared completion flag,
\* and keeps the items.
C6_ResetEffect ==
  [][/\ QuizStep("reset") =>
          /\ currentQuestion' = 0
          /\ selectedAnswers' = EmptyObject
          /\ showExplanation' = EmptyObject
          /\ quizCompleted' = FALSE
          /\ mcqData' = mcqData
     /\ CardStep("reset") =>
          /\ currentCard' = 0
          /\ reviewedCards' = {}
          /\ studyCompleted' = FALSE
          /\ flashcardData' = flashcardData]_vars

\* The last call was a reset of a loaded quiz.
C6_Witness ==
  /\ page = "quiz"
  /\ lastOp.op = "reset"
  /\ Len(mcqData) > 1
  /\ ~loading /\ error = ""

NoQuestions ==
  \/ Falsy(localStorage.mcqData)
  \/ Len(parseMCQOutput(localStorage.mcqData.blocks)) = 0

NoCards ==
  \/ Falsy(localStorage.flashcardData)
  \/ Len(parseFlashcardOutput(localStorage.flashcardData.blocks)) = 0

\* C8: once the load has run on a text that yields zero items, the items are
\* empty, the index, answers, flags and completion flag have their initial
\* values, and an error message is set.
C8_EmptyLoadRejected ==
  /\ (page = "quiz" /\ ~loading /\ NoQuestions) =>
       /\ mcqData = <<>>
       /\ currentQuestion = 0
       /\ selectedAnswers = EmptyObject
       /\ showExplanation = EmptyObject
       /\ ~quizCompleted
       /\ error # ""
  /\ (page = "flashcard" /\ ~fcLoading /\ NoCards) =>
       /\ flashcardData = <<>>
       /\ currentCard = 0
       /\ reviewedCards = {}
       /\ ~isFlipped
       /\ ~studyCompleted
       /\ fcError # ""

\* The load has run on a stored text whose blocks are all malformed.
C8_Witness ==
  /\ page = "flashcard"
  /\ lastOp.op = "load"
  /\ localStorage.flashcardData.kind = "text"
  /\ Len(localStorage.flashcardData.blocks) > 0
  /\ NoCards

\* C9: a flip to the back side puts the current index in the reviewed set; no
\* flip, advance, retreat or load takes an index out of it; a reset empties
\* it.
C9_ReviewedMonotone ==
  [][/\ (CardStep("flipCard") /\ ~isFlipped) => currentCard \in reviewedCards'
     /\ ~Clears => reviewedCards \subseteq reviewedCards'
     /\ CardStep("reset") => reviewedCards' = {}]_vars

\* The card was flipped to its back and then to its front again, and is
\* still reviewed.
C9_Witness ==
  /\ page = "flashcard"
  /\ lastOp.op = "flipCard"
  /\ ~isFlipped
  /\ currentCard \in reviewedCards

\* C10: whenever items are loaded the current index is one of theirs.
C10_IndexInRange ==
  /\ Len(mcqData) > 0 => (0 <= currentQuestion /\ currentQuestion < Len(mcqData))
  /\ Len(flashcardData) > 0 => (0 <= currentCard /\ currentCard < Len(flashcardData))

\* An advance was called on the last of three cards and the index stayed.
C10_Witness ==
  /\ page = "flashcard"
  /\ lastOp.op = "advance"
  /\ Len(flashcardData) = 3
  /\ currentCard = 2
  /\ studyCompleted

\* C11: the score is the number of question indices whose recorded answer is
\* that question's correct letter; it is 0 while nothing is recorded, and it
\* has a value in every state of the session (before the load, during the
\* quiz, on the result screen).
C11_ScoreCountsCorrect ==
  /\ calculateScore =
       Cardinality({i \in DOMAIN selectedAnswers :
                      /\ i + 1 \in DOMAIN mcqData
                      /\ selectedAnswers[i] = mcqData[i + 1].correctAnswer})
  /\ selectedAnswers = EmptyObject => calculateScore = 0
  /\ calculateScore \in 0..Len(mcqData)

\* The result screen of a quiz with a right and a wrong answer.
C11_Witness ==
  /\ QuizShowsResult
  /\ calculateScore >= 1
  /\ calculateScore < Cardinality(DOMAIN selectedAnswers)


\* The integer nearest to 100 * score / total for 0 <= score <= total, the
\* one farther from zero when two are equally near.
HalfAwayFromZero(score, total) == (200 * score + total) \div (2 * total)

\* C12: on the result screen of a quiz of one question or more, the
\* percentage shown is score / total * 100 rounded to the nearest integer,
\* ties away from zero, and it is an integer from 0 to 100.
C12_PercentageRounded ==
  QuizShowsResult /\ Len(mcqData) >= 1 =>
    /\ ResultPercentage = HalfAwayFromZero(calculateScore, Len(mcqData))
    /\ ResultPercentage \in 0..100

\* ------------------------------------------------------ the parser claims
\* A well-formed MCQ block of the grammar: a question header, exactly one
\* option line for each of A, B, C, D, each with text, and the marker.
WellFormed(block) ==
  /\ block.q
  /\ Len(block.opts) = 4
  /\ {block.opts[i] : i \in 1..Len(block.opts)} = Letters
  /\ block.blank = {}
  /\ block.correct \in Letters

\* The k-th smallest member of a set of positions.
KthOf(S, k) == CHOOSE p \in S : Cardinality({q \in S : q < p}) = k - 1

QuizBlocks == localStorage.mcqData.blocks

FlashcardBlocks == localStorage.flashcardData.blocks

\* The records of a parse that stem from block i.
FromBlock(parsed, i) == {k \in 1..Len(parsed) : parsed[k].id = i}

\* A quiz is on screen with what its parser returned.
QuizLoaded == page = "quiz" /\ ~loading /\ error = "" /\ mcqData = ParsedQuestions

\* C13: a text of N well-formed blocks among malformed ones parses to exactly
\* N questions, the k-th of them from the k-th well-formed block.
C13_OnePerWellFormedBlock ==
  LET wf == {i \in 1..Len(QuizBlocks) : WellFormed(QuizBlocks[i])} IN
  /\ Len(ParsedQuestions) = Cardinality(wf)
  /\ \A k \in 1..Len(ParsedQuestions) :
       /\ ParsedQuestions[k].id = KthOf(wf, k)
       /\ ParsedQuestions[k].correctAnswer = QuizBlocks[KthOf(wf, k)].correct

\* C14: every parsed question has a non-empty text for each of A, B, C, D,
\* and a block whose option letters are not exactly one each of A, B, C, D
\* gives no question.
C14_FourDistinctOptions ==
  /\ \A k \in 1..Len(ParsedQuestions) :
       \A l \in Letters : ParsedQuestions[k].options[l]
  /\ \A i \in 1..Len(QuizBlocks) :
       \/ /\ Len(QuizBlocks[i].opts) = 4
          /\ {QuizBlocks[i].opts[j] : j \in 1..Len(QuizBlocks[i].opts)} = Letters
       \/ FromBlock(ParsedQuestions, i) = {}

\* C15: a block with three option lines gives no question, and every
\* well-formed block after it gives its question all the same.
C15_ThreeOptionsSkipped ==
  \A i \in 1..Len(QuizBlocks) :
    Len(QuizBlocks[i].opts) = 3 =>
      /\ FromBlock(ParsedQuestions, i) = {}
      /\ \A j \in (i + 1)..Len(QuizBlocks) :
           WellFormed(QuizBlocks[j]) =>
             \E k \in FromBlock(ParsedQuestions, j) :
                ParsedQuestions[k].correctAnswer = QuizBlocks[j].correct

\* A loaded quiz whose text has a three-option block before a well-formed one.
C15_Witness ==
  /\ QuizLoaded
  /\ \E i \in 1..Len(QuizBlocks), j \in 1..Len(QuizBlocks) :
       /\ i < j
       /\ Len(QuizBlocks[i].opts) = 3
       /\ WellFormed(QuizBlocks[j])
       /\ FromBlock(mcqData, j) # {}

\* C16: every parsed question stems from a block that has the correct-answer
\* marker, its correct letter is the marker's and a key of its own options;
\* a block without the marker gives no question.
C16_MarkerRequired ==
  /\ \A k \in 1..Len(ParsedQuestions) :
       /\ ParsedQuestions[k].id \in 1..Len(QuizBlocks)
       /\ QuizBlocks[ParsedQuestions[k].id].correct # "none"
       /\ ParsedQuestions[k].correctAnswer = QuizBlocks[ParsedQuestions[k].id].correct
       /\ ParsedQuestions[k].correctAnswer \in DOMAIN ParsedQuestions[k].options
  /\ \A i \in 1..Len(QuizBlocks) :
       QuizBlocks[i].correct = "none" => FromBlock(ParsedQuestions, i) = {}

\* A loaded quiz whose text has a block without the marker.
C16_Witness ==
  /\ QuizLoaded
  /\ \E i \in 1..Len(QuizBlocks) : QuizBlocks[i].correct = "none"
  /\ Len(mcqData) >= 1

\* C17: the id of a parsed question or card is the 1-based position of its
\* block among the blocks the parser went through, skipped ones counted; so
\* the ids increase strictly, the k-th id is at least k, and it is k exactly
\* when no block before it was skipped.
C17_IdIsBlockPosition ==
  /\ \A k \in 1..Len(ParsedQuestions) :
       /\ ParsedQuestions[k].id \in 1..Len(QuizBlocks)
       /\ ParseMCQBlock(QuizBlocks[ParsedQuestions[k].id], ParsedQuestions[k].id - 1)
            = <<ParsedQuestions[k]>>
       /\ ParsedQuestions[k].id >= k
       /\ k > 1 => ParsedQuestions[k - 1].id < ParsedQuestions[k].id
       /\ ParsedQuestions[k].id = k <=>
            \A i \in 1..(ParsedQuestions[k].id - 1) :
               ParseMCQBlock(QuizBlocks[i], i - 1) # <<>>
  /\ \A k \in 1..Len(ParsedCards) :
       /\ ParsedCards[k].id \in 1..Len(FlashcardBlocks)
       /\ ParseCardBlock(FlashcardBlocks[ParsedCards[k].id], ParsedCards[k].id - 1)
            = <<ParsedCards[k]>>
       /\ ParsedCards[k].id >= k
       /\ k > 1 => ParsedCards[k - 1].id < ParsedCards[k].id
       /\ ParsedCards[k].id = k <=>
            \A i \in 1..(ParsedCards[k].id - 1) :
               ParseCardBlock(FlashcardBlocks[i], i - 1) # <<>>

\* A loaded quiz with a question after a skipped block and one before it: the
\* ids and the array positions have diverged.
C17_Witness ==
  /\ QuizLoaded
  /\ Len(mcqData) = 2
  /\ mcqData[1].id = 1
  /\ mcqData[2].id = 3

\* C18: a flashcard block is dropped only when its front or its "Answer:"
\* marker is missing; with the marker present and nothing but white space
\* after it, the card is returned with an empty back.
C18_EmptyBackRetained ==
  \A i \in 1..Len(FlashcardBlocks) :
    /\ FromBlock(ParsedCards, i) = {} =>
         ~FlashcardBlocks[i].front \/ FlashcardBlocks[i].answer = "none"
    /\ FlashcardBlocks[i].front /\ FlashcardBlocks[i].answer = "empty" =>
         \E k \in FromBlock(ParsedCards, i) : ParsedCards[k].back = "empty"

\* ----------------------------------------------------- the session claims
\* C19: the items of a session stay as loaded: a step of selectAnswer,
\* flipCard, advance, retreat or reset leaves the questions and the cards as
\* they were, in count, order and contents.
C19_ItemsFixed ==
  [][lastOp'.op \in {"selectAnswer", "flipCard", "advance", "retreat", "reset"} =>
       /\ mcqData' = mcqData
       /\ flashcardData' = flashcardData]_vars

\* A deck of three cards has just been reset from its completion screen.
C19_Witness ==
  /\ page = "flashcard"
  /\ lastOp.op = "reset"
  /\ Len(flashcardData) = 3
  /\ reviewedCards = {}
  /\ ~studyCompleted

\* C20: in every state of the quiz the questions with a recorded answer are
\* the questions whose explanation is shown.
C20_AnsweredIsRevealed == DOMAIN selectedAnswers = DOMAIN showExplanation

\* Two questions are answered and shown, the current one is not yet.
C20_Witness ==
  /\ QuizShowsQuestion
  /\ DOMAIN selectedAnswers = {0, 1}
  /\ DOMAIN showExplanation = {0, 1}
  /\ currentQuestion = 2

\* C21: in the quiz driven through its controls, every question before the
\* current one has a recorded answer, and on the result screen every question
\* has one.
C21_AnsweredPrefix ==
  page = "quiz" =>
    /\ \A i \in 0..(currentQuestion - 1) : Has(selectedAnswers, i)
    /\ quizCompleted => \A i \in 0..(Len(mcqData) - 1) : Has(selectedAnswers, i)

\* The result screen of a quiz of three questions, all three answered.
C21_Witness ==
  /\ QuizShowsResult
  /\ Len(mcqData) = 3
  /\ currentQuestion = 2
  /\ DOMAIN selectedAnswers = {0, 1, 2}

\* C22: completion is sticky: while the component stays mounted, a step that
\* takes quizCompleted or studyCompleted from true to false is a reset; a
\* selectAnswer, flipCard, advance or retreat step taken when completed
\* leaves it completed.
C22_CompletionSticky ==
  [][/\ (page = "quiz" /\ page' = "quiz" /\ quizCompleted /\ ~quizCompleted')
          => lastOp'.op = "reset"
     /\ (page = "flashcard" /\ page' = "flashcard" /\ studyCompleted /\ ~studyCompleted')
          => lastOp'.op = "reset"
     /\ (quizCompleted /\ QuizStep("selectAnswer")) => quizCompleted'
     /\ (quizCompleted /\ QuizStep("advance")) => quizCompleted'
     /\ (quizCompleted /\ QuizStep("retreat")) => quizCompleted'
     /\ (studyCompleted /\ CardStep("flipCard")) => studyCompleted'
     /\ (studyCompleted /\ CardStep("advance")) => studyCompleted'
     /\ (studyCompleted /\ CardStep("retreat")) => studyCompleted']_vars

\* A retreat was taken on a completed deck and moved the card index; the deck
\* is still completed.
C22_Witness ==
  /\ page = "flashcard"
  /\ ~fcLoading
  /\ studyCompleted
  /\ lastOp.op = "retreat"
  /\ Len(flashcardData) = 3
  /\ currentCard = 1

\* C23: once the load has finished, exactly one of "an error is set" and "the
\* items are non-empty" holds, for the quiz and for the deck; so wherever a
\* question, a card or a result is on screen there is at least one item, and
\* the percentages of the result screens divide by a positive count.
C23_NoEmptySession ==
  /\ (page = "quiz" /\ ~loading) => ((error # "") <=> (Len(mcqData) = 0))
  /\ (page = "flashcard" /\ ~fcLoading) => ((fcError # "") <=> (Len(flashcardData) = 0))
  /\ (QuizShowsQuestion \/ QuizShowsResult) => Len(mcqData) >= 1
  /\ (CardShowsCard \/ CardShowsResult) => Len(flashcardData) >= 1
  /\ QuizShowsResult => ResultPercentage \in 0..100

\* A result screen is up, with its percentage over two questions.
C23_Witness ==
  /\ QuizShowsResult
  /\ Len(mcqData) = 2
  /\ ResultPercentage = 50

\* C24: in the flashcard session a step that changes the card index, and a
\* reset step, end with the front side up, whichever side was up before.
C24_NewCardShowsFront ==
  [][(/\ page = "flashcard"
      /\ page' = "flashcard"
      /\ currentCard' # currentCard \/ lastOp'.op = "reset")
       => ~isFlipped']_vars

\* The second card has just come up front side first, after the first one was
\* turned over.
C24_Witness ==
  /\ CardShowsCard
  /\ lastOp.op = "advance"
  /\ currentCard = 1
  /\ reviewedCards = {0}
  /\ ~isFlipped

\* C25: from any question of a loaded quiz, a user who from then on only
\* selects answers and presses Next, and keeps doing both, reaches the result
\* screen: the quiz does not get stuck before quizCompleted.
C25_EventuallyCompleted == (script = 1) ~> quizCompleted

\* The result screen of a three-question quiz, reached by answering and Next.
C25_Witness ==
  /\ script = 1
  /\ QuizShowsResult
  /\ Len(mcqData) = 3
  /\ lastOp.op = "advance"

\* A text in which neither YouTube host occurs.
NonYouTube(u) == \A i \in 1..Len(u) : u[i] \notin Hosts

\* C26: a submit with an empty (or white space only) or non-YouTube URL sets
\* an error and neither sets isProcessing nor sends a request; and whenever
\* isProcessing is true it is false again later, however the request ends.
C26_SubmitValidatedAndReleased ==
  /\ [][(/\ lastOp'.op = "submit"
         /\ trim(url) = <<>> \/ NonYouTube(url))
        => /\ homeError' # ""
           /\ isProcessing' = FALSE
           /\ request' = Idle]_vars
  /\ (isProcessing ~> ~isProcessing)

\* Back on the home page with the error of a non-OK response, after an
\* earlier submit has stored a quiz.
C26_Witness ==
  /\ page = "home"
  /\ lastOp.op = "failed"
  /\ ~isProcessing
  /\ homeError = "Failed to process video for flashcard"
  /\ localStorage.mcqData.kind = "text"

\* C27: the progress shown (the index plus one) lies between 0 and the number
\* of items; the recorded answers and the reviewed set are never more than the
\* items and hold valid item indexes only; so the score is at most the number
\* of questions and both result percentages are at most 100.
C27_CountsWithinItems ==
  /\ (QuizShowsQuestion \/ QuizShowsResult) => currentQuestion + 1 \in 0..Len(mcqData)
  /\ (CardShowsCard \/ CardShowsResult) => currentCard + 1 \in 0..Len(flashcardData)
  /\ page = "quiz" =>
       /\ DOMAIN selectedAnswers \subseteq 0..(Len(mcqData) - 1)
       /\ Cardinality(DOMAIN selectedAnswers) \in 0..Len(mcqData)
       /\ calculateScore \in 0..Len(mcqData)
  /\ page = "flashcard" =>
       /\ reviewedCards \subseteq 0..(Len(flashcardData) - 1)
       /\ Cardinality(reviewedCards) \in 0..Len(flashcardData)
  /\ QuizShowsResult => ResultPercentage \in 0..100
  /\ CardShowsResult => ReviewedPercentage \in 0..100

\* Every card of three reviewed, the end screen showing 3/3 and 100%.
C27_Witness ==
  /\ CardShowsResult
  /\ Len(flashcardData) = 3
  /\ currentCard + 1 = 3
  /\ Cardinality(reviewedCards) = 3
  /\ ReviewedPercentage = 100

====
